---- MODULE Spec2Model ----
(***************************************************************************)
(* Realtime-ChatApp: the socket.io chat server (session registry `users`,  *)
(* bounded history log `messageHistory`, the connection / user_join /      *)
(* send_message / disconnect handlers) as a state machine.                 *)
(*                                                                         *)
(* Strings are sequences of tokens (words and the blank " "), so that the  *)
(* template literals of the server build real text out of the user name.   *)
(* Socket ids are fresh naturals: socket.io never hands out an id twice.   *)
(*                                                                         *)
(* The browser client (ChatApp.vue's socket listeners) is modelled by its  *)
(* refs users and messages and the packets on their way to it.             *)
(***************************************************************************)
EXTENDS Integers, Sequences, FiniteSets, TLC

\* ---------------------------------------------------------------- bounds
\* Number of transport connections ever opened (socket ids 1..MaxConns).
MaxConns == 2
\* Number of events the handlers may append to the history log in one run.
MaxEvents == 2
\* Number of events the handlers may append to a log that is already full.
MaxOverflow == 1
\* Number of events in a history snapshot sent to the client.
MaxSnapshot == 4
\* Number of live packets the client receives in one run.
MaxLive == 3
\* Number of entries in a timeline the template renders.
MaxTimeline == 3
\* Number of broadcasts on their way to the client that it has not handled yet.
MaxWire == 1
\* Number of packets the client has emitted that the server has not handled yet.
MaxOutbox == 2

\* ------------------------------------------------------- program constants
MAX_HISTORY == 100

\* ---------------------------------------------------------------- inputs
\* Display names a client may announce: two ordinary names, the whitespace-only
\* name and the empty name.
Names == { <<"alice">>, <<"bob">>, <<" ">>, << >> }
\* Message bodies (data.message).
Bodies == { <<"hi">>, <<"joined">> }
\* Wall-clock instants returned by new Date(), in seconds since midnight.
Clock == { 60 }

ConnIds == 1..MaxConns

\* users.get(id) of an id the Map does not hold.
Undefined == <<"undefined">>

VARIABLES
    live,            \* ids of the sockets currently connected to the namespace
    nextId,          \* the id the next connecting socket gets
    users,           \* the Map users: socket id -> user name
    messageHistory,  \* the array messageHistory
    appended,        \* history: every event ever pushed onto messageHistory, in order
    announced,       \* history: ids of the sockets that ever sent user_join
    budget,          \* pushes still allowed by MaxEvents (MaxOverflow on a full log)
    last,            \* history: the handler that ran last and what it emitted
    clientUserName,  \* client: the ref userName
    clientUsers,     \* client: the ref users, an array of {id, name}
    messages,        \* client: the ref messages, the timeline
    wire,            \* packets on their way to the client's socket, oldest first
    clast,           \* history: the client listener that ran last, its argument
                     \* and the ref users as it was before
    separators,      \* client: what v-if="shouldShowTimeSeparator(idx)" rendered,
                     \* one flag per timeline entry
    loginPhase,      \* client: the ref loginPhase
    showInitialConnectPrompt,  \* client: the ref showInitialConnectPrompt
    showConnectionModal,       \* client: the ref showConnectionModal
    isConnected,     \* client: the ref isConnected
    clientSocket,    \* id of the client's connection at the server, 0 if it has none
    dialing,         \* the client's socket is trying to open a connection
    timers,          \* client: the setTimeout callbacks not yet run
    outbox           \* packets the client emitted that the server has not handled,
                     \* oldest first, each with the socket id it travels on
                     \* (0 while it waits in the socket's send buffer)

svars == <<live, nextId, users, messageHistory, appended, announced, budget, last>>

\* The client's refs and timers outside the socket listeners' reach.
uvars == <<separators, loginPhase, showInitialConnectPrompt, showConnectionModal,
           isConnected, clientSocket, dialing, timers, outbox>>

cvars == <<clientUserName, clientUsers, messages, wire, clast, uvars>>

vars == <<svars, cvars>>

\* ------------------------------------------------------------ pure helpers

\* String.prototype.trim on a token string: leading and trailing blanks go.
RECURSIVE TrimLeft(_)
TrimLeft(s) == IF s /= << >> /\ Head(s) = " " THEN TrimLeft(Tail(s)) ELSE s

RECURSIVE TrimRight(_)
TrimRight(s) ==
    IF s /= << >> /\ s[Len(s)] = " " THEN TrimRight(SubSeq(s, 1, Len(s) - 1)) ELSE s

Trim(s) == TrimRight(TrimLeft(s))

\* toLocaleTimeString('en-US', {hour: '2-digit', minute: '2-digit'}) of an
\* instant t (seconds since midnight): the 12-hour "HH:MM AM/PM" label.
ToLocaleTimeString(t) ==
    LET hour == (t \div 3600) % 24
        h12  == IF hour % 12 = 0 THEN 12 ELSE hour % 12
    IN  [hh |-> h12, mm |-> (t \div 60) % 60, ap |-> IF hour < 12 THEN "AM" ELSE "PM"]

\* `${userName} joined the chat`
JoinMessage(userName) == userName \o <<" ", "joined", " ", "the", " ", "chat">>

\* `${userName} left the chat`
LeftMessage(userName) == userName \o <<" ", "left", " ", "the", " ", "chat">>

\* JavaScript truthiness of what users.get returns (a string or undefined).
TruthyAlways(v) == TRUE

Truthy(v) == v /= Undefined /\ v /= << >>

\* users.get(id)
UsersGet(u, id) == IF id \in DOMAIN u THEN u[id] ELSE Undefined

\* users.set(id, userName)
UsersSet(u, id, userName) ==
    [k \in DOMAIN u \cup {id} |-> IF k = id THEN userName ELSE u[k]]

\* users.delete(id)
UsersClear(u, id) == [k \in {} |-> << >>]

UsersKeep(u, id) == u

UsersDelete(u, id) == [k \in DOMAIN u \ {id} |-> u[k]]

\* Array.from(users.values()).includes(userName)
UserAlreadyExistsByKey(u, userName) == FALSE

UserAlreadyExists(u, userName) == \E k \in DOMAIN u : u[k] = userName

\* messageHistory.push(e); if (messageHistory.length > MAX_HISTORY) messageHistory.shift()
PushHistoryNoShift(h, e) == Append(h, e)

PushHistoryPop(h, e) ==
    LET pushed == Append(h, e)
    IN  IF Len(pushed) > MAX_HISTORY THEN SubSeq(pushed, 1, Len(pushed) - 1) ELSE pushed

PushHistory(h, e) ==
    LET pushed == Append(h, e)
    IN  IF Len(pushed) > MAX_HISTORY THEN Tail(pushed) ELSE pushed

JoinEvent(id, userName, t) ==
    [userId |-> id, userName |-> userName, message |-> JoinMessage(userName),
     timestamp |-> ToLocaleTimeString(t)]

MessageEvent(id, userName, body, t) ==
    [userId |-> id, userName |-> userName, message |-> body,
     timestamp |-> ToLocaleTimeString(t)]

LeftEvent(id, userName, t, size) ==
    [userId |-> id, userName |-> userName, message |-> LeftMessage(userName),
     timestamp |-> ToLocaleTimeString(t), totalUsers |-> size]

\* socket.emit(...): the packet goes to this socket alone.
\* io.emit(...): the packet goes to every socket connected to the namespace.
BroadcastEmitTargets(connected, id) == connected \ {id}

IoEmitTargets(connected, id) == connected

SocketEmitToAll(connected, id) == connected

SocketEmitTargets(connected, id) == {id}

Packet(event, data, to) == [event |-> event, data |-> data, to |-> to]

\* ------------------------------------------------------------------- Init

\* The client after onMounted, before any packet has arrived.
ClientMounted ==
    /\ clientUsers = << >>
    /\ messages = << >>
    /\ clast = [op |-> "mounted", data |-> << >>, was |-> << >>]
    /\ separators = << >>
    /\ loginPhase = TRUE
    /\ showInitialConnectPrompt = FALSE
    /\ showConnectionModal = FALSE
    /\ isConnected = FALSE
    /\ clientSocket = 0
    /\ dialing = TRUE
    /\ timers = {}
    /\ outbox = << >>

ServerInit ==
    /\ live = {}
    /\ nextId = 1
    /\ users = [k \in {} |-> << >>]
    /\ messageHistory = << >>
    /\ appended = << >>
    /\ announced = {}
    /\ budget = MaxEvents
    /\ last = [op |-> "listen", id |-> 0, arg |-> << >>, emits |-> << >>]

\* The server has started; the client has typed no name and is sent nothing.
ClientIdle ==
    /\ ClientMounted
    /\ clientUserName = << >>
    /\ wire = << >>

Init == ServerInit /\ ClientIdle

\* ---------------------------------------------------------------- actions

\* What a handler's emits put on the wire to the client: the packets whose
\* targets include the client's socket, in the order they were emitted.
Wired ==
    /\ wire' = wire \o SelectSeq(last'.emits, LAMBDA p : clientSocket \in p.to)
    /\ Len(wire') <= MaxWire

Delivered == Wired /\ UNCHANGED <<clientUserName, clientUsers, messages, clast, uvars>>

\* io.on('connection'): a new socket joins the namespace and is sent the history.
OnConnection ==
    /\ nextId <= MaxConns
    /\ live' = live \cup {nextId}
    /\ nextId' = nextId + 1
    /\ last' = [op |-> "connection", id |-> nextId, arg |-> << >>,
                emits |-> << Packet("load_history", messageHistory,
                                    SocketEmitTargets(live', nextId)) >>]
    /\ UNCHANGED <<users, messageHistory, appended, announced, budget>>

\* socket.on('user_join', userName)
OnUserJoin(id, userName, t) ==
    /\ id \in live
    /\ LET userAlreadyExists == UserAlreadyExists(users, userName)
           joinEvent == JoinEvent(id, userName, t)
       IN  /\ users' = UsersSet(users, id, userName)
           /\ IF ~userAlreadyExists
                 THEN /\ budget > 0
                      /\ messageHistory' = PushHistory(messageHistory, joinEvent)
                      /\ appended' = Append(appended, joinEvent)
                      /\ budget' = budget - 1
                      /\ last' = [op |-> "user_join", id |-> id, arg |-> userName,
                                  emits |-> << Packet("user_joined", joinEvent,
                                                      IoEmitTargets(live, id)) >>]
                 ELSE /\ last' = [op |-> "user_join", id |-> id, arg |-> userName,
                                  emits |-> << Packet("user_reconnected",
                                                      [userId |-> id, userName |-> userName],
                                                      IoEmitTargets(live, id)) >>]
                      /\ UNCHANGED <<messageHistory, appended, budget>>
    /\ announced' = announced \cup {id}
    /\ UNCHANGED <<live, nextId>>

\* socket.on('send_message', data) with data.message = body
OnSendMessage(id, body, t) ==
    /\ id \in live
    /\ LET userName == UsersGet(users, id)
           messageEvent == MessageEvent(id, userName, body, t)
       IN  IF Truthy(userName)
              THEN /\ budget > 0
                   /\ messageHistory' = PushHistory(messageHistory, messageEvent)
                   /\ appended' = Append(appended, messageEvent)
                   /\ budget' = budget - 1
                   /\ last' = [op |-> "send_message", id |-> id, arg |-> body,
                               emits |-> << Packet("receive_message", messageEvent,
                                                   IoEmitTargets(live, id)) >>]
              ELSE /\ last' = [op |-> "send_message", id |-> id, arg |-> body,
                               emits |-> << >>]
                   /\ UNCHANGED <<messageHistory, appended, budget>>
    /\ UNCHANGED <<live, nextId, users, announced>>

\* socket.on('disconnect'): socket.io has already removed the socket from the
\* namespace when the handler runs, so io.emit does not reach it.
OnDisconnect(id, t) ==
    /\ id \in live
    /\ live' = live \ {id}
    /\ LET userName == UsersGet(users, id)
           leftEvent == LeftEvent(id, userName, t, Cardinality(DOMAIN users'))
       IN  /\ users' = UsersDelete(users, id)
           /\ IF Truthy(userName)
                 THEN /\ budget > 0
                      /\ messageHistory' = PushHistory(messageHistory, leftEvent)
                      /\ appended' = Append(appended, leftEvent)
                      /\ budget' = budget - 1
                      /\ last' = [op |-> "disconnect", id |-> id, arg |-> << >>,
                                  emits |-> << Packet("user_left", leftEvent,
                                                      IoEmitTargets(live', id)) >>]
                 ELSE /\ last' = [op |-> "disconnect", id |-> id, arg |-> << >>,
                                  emits |-> << >>]
                      /\ UNCHANGED <<messageHistory, appended, budget>>
    /\ UNCHANGED <<nextId, announced>>

\* The handlers run for sockets other than the client's.
Connect == OnConnection /\ Delivered

UserJoin(id, userName, t) == OnUserJoin(id, userName, t) /\ Delivered

SendMessage(id, body, t) == OnSendMessage(id, body, t) /\ Delivered

Disconnect(id, t) == OnDisconnect(id, t) /\ Delivered

Next ==
    \/ Connect
    \/ \E id \in ConnIds, userName \in Names, t \in Clock : UserJoin(id, userName, t)
    \/ \E id \in ConnIds, body \in Bodies, t \in Clock : SendMessage(id, body, t)
    \/ \E id \in ConnIds, t \in Clock : Disconnect(id, t)

Spec == Init /\ [][Next]_vars

\* ------------------------------------------------- a server with a full log
\* The log after socket 1 announced "alice" and then sent n messages, "hi" and
\* "joined" in turn:
\* what UserJoin followed by n SendMessage steps leave in messageHistory.
ChattedBody(n) == IF n % 2 = 1 THEN <<"hi">> ELSE <<"joined">>

Chatted(n) ==
    [i \in 1..(n + 1) |->
        IF i = 1 THEN JoinEvent(1, <<"alice">>, 60)
                 ELSE MessageEvent(1, <<"alice">>, ChattedBody(i - 1), 60)]

\* The state Spec reaches (with a budget of MAX_HISTORY pushes) by Connect,
\* UserJoin(1, "alice", 60) and MAX_HISTORY - 1 times SendMessage(1, body, 60):
\* the log holds exactly MAX_HISTORY events and nothing has been evicted yet.
InitFull ==
    /\ live = {1}
    /\ nextId = 2
    /\ users = UsersSet([k \in {} |-> << >>], 1, <<"alice">>)
    /\ messageHistory = Chatted(MAX_HISTORY - 1)
    /\ appended = messageHistory
    /\ announced = {1}
    /\ budget = MaxOverflow
    /\ last = [op |-> "send_message", id |-> 1, arg |-> ChattedBody(MAX_HISTORY - 1),
               emits |-> << Packet("receive_message", messageHistory[MAX_HISTORY],
                                   IoEmitTargets({1}, 1)) >>]
    /\ ClientIdle

SpecFull == InitFull /\ [][Next]_vars

\* ------------------------------------------------------------- the client

\* String.prototype.includes(word), on token strings.
Includes(s, word) == \E i \in 1..Len(s) : s[i] = word

\* msg.message && msg.message.includes('joined')
SaysJoined(msg) == msg.message /= << >> /\ Includes(msg.message, "joined")

\* msg.message && msg.message.includes('left')
SaysLeft(msg) == msg.message /= << >> /\ Includes(msg.message, "left")

\* The object userJoins as the sequence of its [name, id] properties in insertion
\* order (the order Object.entries walks them in).
\* userJoins[name] = id
JoinsSet(userJoins, name, id) ==
    IF \E i \in 1..Len(userJoins) : userJoins[i].name = name
       THEN LET at == CHOOSE i \in 1..Len(userJoins) : userJoins[i].name = name
            IN  [userJoins EXCEPT ![at] = [name |-> name, id |-> id]]
       ELSE Append(userJoins, [name |-> name, id |-> id])

\* delete userJoins[name]
JoinsKeep(userJoins, name) == userJoins

JoinsDelete(userJoins, name) == SelectSeq(userJoins, LAMBDA e : e.name /= name)

\* One turn of history.forEach in the load_history listener. (The set userLefts
\* the listener also keeps is never read and is left out.)
ReplayStep(userJoins, msg) ==
    IF SaysJoined(msg) THEN JoinsSet(userJoins, msg.userName, msg.userId)
    ELSE IF SaysLeft(msg) THEN JoinsDelete(userJoins, msg.userName)
    ELSE userJoins

\* history.forEach(...) started with userJoins: the turns over the first half of
\* history and then the turns over the second half. (The test on mid only makes
\* the first half's result a value before the second half starts.)
RECURSIVE ReplayOnto(_, _)
ReplayOnto(userJoins, history) ==
    IF history = << >> THEN userJoins
    ELSE IF Len(history) = 1 THEN ReplayStep(userJoins, history[1])
    ELSE LET half == Len(history) \div 2
             mid == ReplayOnto(userJoins, SubSeq(history, 1, half))
         IN  IF mid = << >>
                THEN ReplayOnto(<< >>, SubSeq(history, half + 1, Len(history)))
                ELSE ReplayOnto(mid, SubSeq(history, half + 1, Len(history)))

\* userJoins after the whole snapshot, from const userJoins = {}.
ReplayJoins(history) == ReplayOnto(<< >>, history)

\* Object.entries(userJoins).map(([name, id]) => ({id, name}))
RebuildUsers(userJoins) ==
    [i \in 1..Len(userJoins) |-> [id |-> userJoins[i].id, name |-> userJoins[i].name]]

SystemEntryBlank(data) ==
    [type |-> "system", message |-> << >>, timestamp |-> data.timestamp]

SystemEntry(data) ==
    [type |-> "system", message |-> data.message, timestamp |-> data.timestamp]

MessageEntry(data, localName) ==
    [type |-> "message", userId |-> data.userId, userName |-> data.userName,
     message |-> data.message, timestamp |-> data.timestamp,
     isOwn |-> data.userName = localName]

\* The callback of history.map in the load_history listener.
TimelineEntry(msg, localName) ==
    IF msg.message /= << >> /\ (Includes(msg.message, "joined") \/ Includes(msg.message, "left"))
       THEN SystemEntry(msg)
       ELSE MessageEntry(msg, localName)

\* socket.on('load_history', history)
ClientLoadHistory ==
    /\ wire /= << >>
    /\ Head(wire).event = "load_history"
    /\ UNCHANGED <<clientUserName, uvars>>
    /\ wire' = Tail(wire)
    /\ LET history == Head(wire).data
       IN  /\ clientUsers' = RebuildUsers(ReplayJoins(history))
           /\ messages' = [i \in 1..Len(history) |-> TimelineEntry(history[i], clientUserName)]
           /\ clast' = [op |-> "load_history", data |-> history, was |-> clientUsers]
    /\ UNCHANGED svars

\* users.value.find(u => u.id === data.userId || u.name === data.userName)
UserExistsById(us, data) == \E i \in 1..Len(us) : us[i].id = data.userId

UserExists(us, data) ==
    \E i \in 1..Len(us) : us[i].id = data.userId \/ us[i].name = data.userName

\* users.value.filter(u => u.name !== data.userName)
WithoutNameById(us, data) == SelectSeq(us, LAMBDA u : u.id /= data.userId)

WithoutName(us, data) == SelectSeq(us, LAMBDA u : u.name /= data.userName)

\* users.value.filter(u => u.id !== data.userId)
WithoutIdByName(us, data) == SelectSeq(us, LAMBDA u : u.name /= data.userName)

WithoutId(us, data) == SelectSeq(us, LAMBDA u : u.id /= data.userId)

\* socket.on('user_joined', data)
ClientUserJoined ==
    /\ wire /= << >>
    /\ Head(wire).event = "user_joined"
    /\ UNCHANGED <<clientUserName, uvars>>
    /\ wire' = Tail(wire)
    /\ LET data == Head(wire).data
       IN  /\ clientUsers' = IF UserExists(clientUsers, data)
                                THEN clientUsers
                                ELSE Append(clientUsers, [id |-> data.userId, name |-> data.userName])
           /\ messages' = Append(messages, SystemEntry(data))
           /\ clast' = [op |-> "user_joined", data |-> data, was |-> clientUsers]
    /\ UNCHANGED svars

\* socket.on('user_reconnected', data)
ClientUserReconnected ==
    /\ wire /= << >>
    /\ Head(wire).event = "user_reconnected"
    /\ UNCHANGED <<clientUserName, messages, uvars>>
    /\ wire' = Tail(wire)
    /\ LET data == Head(wire).data
       IN  /\ clientUsers' = Append(WithoutName(clientUsers, data),
                                    [id |-> data.userId, name |-> data.userName])
           /\ clast' = [op |-> "user_reconnected", data |-> data, was |-> clientUsers]
    /\ UNCHANGED svars

\* socket.on('receive_message', data)
ClientReceiveMessage ==
    /\ wire /= << >>
    /\ Head(wire).event = "receive_message"
    /\ UNCHANGED <<clientUserName, clientUsers, uvars>>
    /\ wire' = Tail(wire)
    /\ LET data == Head(wire).data
       IN  /\ messages' = Append(messages, MessageEntry(data, clientUserName))
           /\ clast' = [op |-> "receive_message", data |-> data, was |-> clientUsers]
    /\ UNCHANGED svars

\* socket.on('user_left', data)
ClientUserLeft ==
    /\ wire /= << >>
    /\ Head(wire).event = "user_left"
    /\ UNCHANGED <<clientUserName, uvars>>
    /\ wire' = Tail(wire)
    /\ LET data == Head(wire).data
       IN  /\ clientUsers' = WithoutId(clientUsers, data)
           /\ messages' = Append(messages, SystemEntry(data))
           /\ clast' = [op |-> "user_left", data |-> data, was |-> clientUsers]
    /\ UNCHANGED svars

\* ------------------------------------------- a client replaying a snapshot
\* Who wrote the events of a snapshot: socket 1 and, after it, socket 3 as "alice",
\* socket 2 as "bob".
Senders == { [id |-> 1, name |-> <<"alice">>], [id |-> 2, name |-> <<"bob">>],
             [id |-> 3, name |-> <<"alice">>] }

\* Bodies of the chat messages in a snapshot.
SnapshotBodies == { <<"hi">>, <<"joined">>, <<"left">> }

\* The events the server's handlers build for these senders.
JoinedEvents == { JoinEvent(w.id, w.name, 60) : w \in Senders }

LeftEvents == { LeftEvent(w.id, w.name, 60, 0) : w \in Senders }

MessageEvents == { MessageEvent(w.id, w.name, body, 60) : w \in Senders, body \in SnapshotBodies }

HistoryEvents == JoinedEvents \cup LeftEvents \cup MessageEvents

Snapshots == UNION { [1..n -> HistoryEvents] : n \in 0..MaxSnapshot }

\* The client has connected and its load_history packet is on the way.
InitReplay ==
    /\ ServerInit
    /\ ClientMounted
    /\ clientUserName \in { << >>, <<"alice">> }
    /\ \E history \in Snapshots :
          wire = << Packet("load_history", history, {1}) >>

NextReplay == ClientLoadHistory

SpecReplay == InitReplay /\ [][NextReplay]_vars

\* ------------------------------------------ a client receiving broadcasts
\* The packets the server's handlers broadcast for the senders above.
LivePackets ==
    { Packet("user_joined", JoinEvent(w.id, w.name, 60), {1}) : w \in Senders }
    \cup { Packet("user_reconnected", [userId |-> w.id, userName |-> w.name], {1}) : w \in Senders }
    \cup { Packet("receive_message", MessageEvent(w.id, w.name, body, 60), {1}) :
              w \in Senders, body \in Bodies }
    \cup { Packet("user_left", LeftEvent(w.id, w.name, 60, 0), {1}) : w \in Senders }

\* The client is connected, its lists are empty, and up to MaxLive broadcasts
\* are on the way.
InitLive ==
    /\ ServerInit
    /\ ClientMounted
    /\ clientUserName \in { << >>, <<"alice">> }
    /\ wire \in UNION { [1..n -> LivePackets] : n \in 0..MaxLive }

NextLive ==
    \/ ClientUserJoined
    \/ ClientUserReconnected
    \/ ClientReceiveMessage
    \/ ClientUserLeft

SpecLive == InitLive /\ [][NextLive]_vars

\* ------------------------------- a client that connects and stays connected
\* The client's socket connects (io(...) in onMounted): the server's connection
\* handler runs for it, and the client is sent its 'connect' event and then the
\* history.
ClientConnects ==
    /\ dialing
    /\ clientSocket = 0
    /\ OnConnection
    /\ clientSocket' = nextId
    /\ dialing' = FALSE
    /\ wire' = << Packet("connect", << >>, {nextId}) >> \o last'.emits
    /\ UNCHANGED <<clientUserName, clientUsers, messages, clast>>
    /\ UNCHANGED <<separators, loginPhase, showInitialConnectPrompt, showConnectionModal,
                   isConnected, timers, outbox>>

\* socket.on('connect'); the socket first sends what waited in its send buffer.
ClientOnConnect ==
    /\ wire /= << >>
    /\ Head(wire).event = "connect"
    /\ isConnected' = TRUE
    /\ outbox' = [i \in 1..Len(outbox) |->
                    IF outbox[i].sock = 0 THEN [outbox[i] EXCEPT !.sock = clientSocket]
                                          ELSE outbox[i]]
    /\ wire' = Tail(wire)
    /\ UNCHANGED <<clientUserName, clientUsers, messages, clast>>
    /\ UNCHANGED <<separators, loginPhase, showInitialConnectPrompt, showConnectionModal,
                   clientSocket, dialing, timers>>
    /\ UNCHANGED svars

\* A socket other than the client's disconnects.
PeerDisconnect(id, t) == id /= clientSocket /\ Disconnect(id, t)

\* The server has just started, or it has been running and its log is full.
InitWatch == Init \/ InitFull

\* The display name announced while the client watches: every socket that
\* announces shares it.
WatchNames == { <<"alice">> }

\* The client connects once and stays; every socket announces, chats and every
\* socket but the client's disconnects.
NextWatch ==
    \/ ClientConnects
    \/ ClientOnConnect
    \/ ClientLoadHistory
    \/ ClientUserJoined
    \/ ClientUserReconnected
    \/ ClientReceiveMessage
    \/ ClientUserLeft
    \/ Connect
    \/ \E id \in ConnIds, userName \in WatchNames, t \in Clock : UserJoin(id, userName, t)
    \/ \E id \in ConnIds, body \in Bodies, t \in Clock : SendMessage(id, body, t)
    \/ \E id \in ConnIds, t \in Clock : PeerDisconnect(id, t)

SpecWatch == InitWatch /\ [][NextWatch]_vars

\* ------------------------------------------------- a user at the client
\* socket.emit(event, data): sent on the connection when the socket is connected,
\* kept in the socket's send buffer (sock 0) until the next 'connect' otherwise.
SocketEmit(event, data) ==
    /\ Len(outbox) < MaxOutbox
    /\ outbox' = Append(outbox, [sock |-> IF isConnected THEN clientSocket ELSE 0,
                                 event |-> event, data |-> data])

\* socket.disconnect(): the connection, if there is one, is closed once the
\* server has handled what the client emitted on it; the client stops listening
\* and stops trying to connect.
SocketDisconnect ==
    /\ outbox' = IF clientSocket /= 0
                    THEN Append(outbox, [sock |-> clientSocket, event |-> "disconnect",
                                         data |-> << >>])
                    ELSE outbox
    /\ clientSocket' = 0
    /\ dialing' = FALSE
    /\ wire' = << >>

\* socket.connect() of a socket that is not connected.
SocketConnect == dialing' = (clientSocket = 0)

\* Which overlay, if any, covers the chat screen: the connection modal lies over
\* the connect prompt, and either lies over the header and the input.
ModalOnTop == ~loginPhase /\ showConnectionModal

PromptOnTop == ~loginPhase /\ showInitialConnectPrompt /\ ~showConnectionModal

ChatOnTop == ~loginPhase /\ ~showInitialConnectPrompt /\ ~showConnectionModal

\* v-model="userName" on the login screen
TypeName(name) ==
    /\ loginPhase
    /\ clientUserName' = name
    /\ UNCHANGED <<clientUsers, messages, wire, clast, uvars>>
    /\ UNCHANGED svars

\* joinChat
JoinChat ==
    /\ loginPhase
    /\ IF Trim(clientUserName) /= << >>
          THEN loginPhase' = FALSE /\ showInitialConnectPrompt' = TRUE
          ELSE UNCHANGED <<loginPhase, showInitialConnectPrompt>>
    /\ UNCHANGED <<clientUserName, clientUsers, messages, wire, clast>>
    /\ UNCHANGED <<separators, showConnectionModal, isConnected, clientSocket, dialing,
                   timers, outbox>>
    /\ UNCHANGED svars

\* sendMessage with messageInput = text
ClientSendMessage(text) ==
    /\ ChatOnTop
    /\ IF Trim(text) /= << >>
          THEN SocketEmit("send_message", text)
          ELSE UNCHANGED outbox
    /\ UNCHANGED <<clientUserName, clientUsers, messages, wire, clast>>
    /\ UNCHANGED <<separators, loginPhase, showInitialConnectPrompt, showConnectionModal,
                   isConnected, clientSocket, dialing, timers>>
    /\ UNCHANGED svars

\* leaveChat
LeaveChat ==
    /\ PromptOnTop \/ ChatOnTop
    /\ SocketDisconnect
    /\ loginPhase' = TRUE
    /\ messages' = << >>
    /\ clientUsers' = << >>
    /\ clientUserName' = << >>
    /\ isConnected' = FALSE
    /\ UNCHANGED <<clast, separators, showInitialConnectPrompt, showConnectionModal, timers>>
    /\ UNCHANGED svars

\* toggleConnectionModal
ToggleConnectionModal ==
    /\ ModalOnTop
    /\ showConnectionModal' = FALSE
    /\ UNCHANGED <<clientUserName, clientUsers, messages, wire, clast>>
    /\ UNCHANGED <<separators, loginPhase, showInitialConnectPrompt, isConnected,
                   clientSocket, dialing, timers, outbox>>
    /\ UNCHANGED svars

\* connectFromPrompt; isConnected stands for socket.value.connected, which the
\* 'connect' and 'disconnect' listeners keep equal to it.
ConnectFromPrompt ==
    /\ PromptOnTop
    /\ "prompt" \notin timers
    /\ IF ~isConnected THEN SocketConnect ELSE UNCHANGED dialing
    /\ timers' = timers \cup {"prompt"}
    /\ UNCHANGED <<clientUserName, clientUsers, messages, wire, clast>>
    /\ UNCHANGED <<separators, loginPhase, showInitialConnectPrompt, showConnectionModal,
                   isConnected, clientSocket, outbox>>
    /\ UNCHANGED svars

\* The callback connectFromPrompt handed to setTimeout(..., 100).
PromptTimerFires ==
    /\ "prompt" \in timers
    /\ SocketEmit("user_join", clientUserName)
    /\ showInitialConnectPrompt' = FALSE
    /\ timers' = timers \ {"prompt"}
    /\ UNCHANGED <<clientUserName, clientUsers, messages, wire, clast>>
    /\ UNCHANGED <<separators, loginPhase, showConnectionModal, isConnected, clientSocket,
                   dialing>>
    /\ UNCHANGED svars

\* toggleConnection
ToggleConnection ==
    /\ ModalOnTop \/ ChatOnTop
    /\ IF isConnected
          THEN /\ SocketDisconnect
               /\ isConnected' = FALSE
               /\ showConnectionModal' = TRUE
               /\ UNCHANGED timers
          ELSE IF Trim(clientUserName) /= << >>
                  THEN /\ "toggle" \notin timers
                       /\ SocketConnect
                       /\ timers' = timers \cup {"toggle"}
                       /\ UNCHANGED <<isConnected, showConnectionModal, clientSocket,
                                      wire, outbox>>
                  ELSE UNCHANGED <<isConnected, showConnectionModal, clientSocket, wire,
                                   outbox, dialing, timers>>
    /\ UNCHANGED <<clientUserName, clientUsers, messages, clast>>
    /\ UNCHANGED <<separators, loginPhase, showInitialConnectPrompt>>
    /\ UNCHANGED svars

\* The callback toggleConnection handed to setTimeout(..., 200).
ToggleTimerFires ==
    /\ "toggle" \in timers
    /\ SocketEmit("user_join", clientUserName)
    /\ showConnectionModal' = FALSE
    /\ timers' = timers \ {"toggle"}
    /\ UNCHANGED <<clientUserName, clientUsers, messages, wire, clast>>
    /\ UNCHANGED <<separators, loginPhase, showInitialConnectPrompt, isConnected,
                   clientSocket, dialing>>
    /\ UNCHANGED svars

\* The transport of the client's connection fails: the server runs its disconnect
\* handler, what was in flight either way is lost, the client's 'disconnect'
\* listener runs and the socket starts to reconnect (reconnection: true).
TransportDrops(t) ==
    /\ clientSocket /= 0
    /\ OnDisconnect(clientSocket, t)
    /\ isConnected' = FALSE
    /\ clientSocket' = 0
    /\ dialing' = TRUE
    /\ wire' = << >>
    /\ outbox' = SelectSeq(outbox, LAMBDA p : p.sock /= clientSocket)
    /\ UNCHANGED <<clientUserName, clientUsers, messages, clast>>
    /\ UNCHANGED <<separators, loginPhase, showInitialConnectPrompt, showConnectionModal,
                   timers>>

\* The oldest packet the client sent on a connection (0 when there is none);
\* packets in the send buffer have not been sent.
Oldest ==
    IF \E i \in 1..Len(outbox) : outbox[i].sock /= 0
       THEN CHOOSE i \in 1..Len(outbox) :
               /\ outbox[i].sock /= 0
               /\ \A j \in 1..(i - 1) : outbox[j].sock = 0
       ELSE 0

\* The server handles the oldest packet the client sent.
Served ==
    /\ Wired
    /\ outbox' = SubSeq(outbox, 1, Oldest - 1) \o SubSeq(outbox, Oldest + 1, Len(outbox))
    /\ UNCHANGED <<clientUserName, clientUsers, messages, clast>>
    /\ UNCHANGED <<separators, loginPhase, showInitialConnectPrompt, showConnectionModal,
                   isConnected, clientSocket, dialing, timers>>

ServeUserJoin(t) ==
    /\ Oldest /= 0
    /\ outbox[Oldest].event = "user_join"
    /\ OnUserJoin(outbox[Oldest].sock, outbox[Oldest].data, t)
    /\ Served

ServeSendMessage(t) ==
    /\ Oldest /= 0
    /\ outbox[Oldest].event = "send_message"
    /\ OnSendMessage(outbox[Oldest].sock, outbox[Oldest].data, t)
    /\ Served

ServeDisconnect(t) ==
    /\ Oldest /= 0
    /\ outbox[Oldest].event = "disconnect"
    /\ OnDisconnect(outbox[Oldest].sock, t)
    /\ Served

\* What the user types as a name, and as a message.
SessionNames == { <<"alice">>, <<" ">> }

SessionBodies == { <<"hi">> }

\* What the client and the server do of themselves.
SessionRuns ==
    \/ ClientConnects
    \/ ClientOnConnect
    \/ ClientLoadHistory
    \/ ClientUserJoined
    \/ ClientUserReconnected
    \/ ClientReceiveMessage
    \/ ClientUserLeft
    \/ PromptTimerFires
    \/ ToggleTimerFires
    \/ \E t \in Clock : ServeUserJoin(t)
    \/ \E t \in Clock : ServeSendMessage(t)
    \/ \E t \in Clock : ServeDisconnect(t)

\* What the user and the network do.
SessionActs ==
    \/ \E name \in SessionNames : TypeName(name)
    \/ JoinChat
    \/ ConnectFromPrompt
    \/ ToggleConnection
    \/ ToggleConnectionModal
    \/ LeaveChat
    \/ \E text \in SessionBodies : ClientSendMessage(text)
    \/ \E t \in Clock : TransportDrops(t)

NextSession == SessionRuns \/ SessionActs

SpecSession == Init /\ [][NextSession]_vars

\* Every step of SessionRuns changes one of these: a connection is made, a packet
\* leaves the wire or the outgoing packets, or a timer is used up.
pulse == <<clientSocket, Len(wire), timers, Len(outbox)>>

\* The timers run out, packets arrive and handlers run; the user and the network
\* are free to do nothing.
SpecSessionFair == SpecSession /\ WF_pulse(SessionRuns)

\* ---------------------------------------- a client rendering its timeline
\* shouldShowTimeSeparator(index) over the timeline m; index counts from 0 and
\* m[index + 1] is messages.value[index].
ShouldShowAlways(m, index) == index /= 0

ShouldShowTimeSeparator(m, index) ==
    IF index = 0 THEN FALSE
    ELSE IF (index + 1) \notin DOMAIN m \/ index \notin DOMAIN m THEN FALSE
    ELSE m[index + 1].timestamp /= m[index].timestamp

\* The template's v-for over messages: one v-if per entry.
Render ==
    /\ separators' = [i \in 1..Len(messages) |-> ShouldShowTimeSeparator(messages, i - 1)]
    /\ UNCHANGED <<clientUserName, clientUsers, messages, wire, clast>>
    /\ UNCHANGED <<loginPhase, showInitialConnectPrompt, showConnectionModal,
                   isConnected, clientSocket, dialing, timers, outbox>>
    /\ UNCHANGED svars

\* Instants with three different labels: 12:01 AM, 12:02 AM and 12:01 PM.
RenderClock == { 60, 120, 43260 }

\* Timeline entries the listeners build from the server's events.
RenderEntries ==
    { SystemEntry(JoinEvent(1, <<"alice">>, t)) : t \in RenderClock }
    \cup { MessageEntry(MessageEvent(1, <<"alice">>, <<"hi">>, t), <<"alice">>) : t \in RenderClock }

\* The client holds some timeline and has not rendered it yet.
InitRender ==
    /\ ServerInit
    /\ clientUserName = <<"alice">>
    /\ clientUsers = << >>
    /\ clast = [op |-> "mounted", data |-> << >>, was |-> << >>]
    /\ messages \in UNION { [1..n -> RenderEntries] : n \in 0..MaxTimeline }
    /\ wire = << >>
    /\ separators = << >>
    /\ loginPhase = FALSE
    /\ showInitialConnectPrompt = FALSE
    /\ showConnectionModal = FALSE
    /\ isConnected = FALSE
    /\ clientSocket = 0
    /\ dialing = FALSE
    /\ timers = {}
    /\ outbox = << >>

NextRender == Render

SpecRender == InitRender /\ [][NextRender]_vars

\* ------------------------------------------------------------- properties

\* The last Min(Len(s), n) elements of s, in order.
LastN(s, n) == SubSeq(s, (IF Len(s) > n THEN Len(s) - n ELSE 0) + 1, Len(s))

\* s is t with exactly one element added at the end.
OneAppended(s, t) == Len(s) = Len(t) + 1 /\ SubSeq(s, 1, Len(t)) = t

\* The registry u with the entry id -> userName written over it.
Registered(u, id, userName) ==
    [k \in DOMAIN u \cup {id} |-> IF k = id THEN userName ELSE u[k]]

IsJoined(e, id, userName) ==
    /\ DOMAIN e = {"userId", "userName", "message", "timestamp"}
    /\ e.userId = id
    /\ e.userName = userName
    /\ e.message = userName \o <<" ", "joined", " ", "the", " ", "chat">>

IsLeft(e, id, userName) ==
    /\ e.userId = id
    /\ e.userName = userName
    /\ e.message = userName \o <<" ", "left", " ", "the", " ", "chat">>

IsMessage(e, id, userName, body) ==
    /\ DOMAIN e = {"userId", "userName", "message", "timestamp"}
    /\ e.userId = id
    /\ e.userName = userName
    /\ e.message = body

\* The handler that ran last emitted exactly one packet: `event`, to `to`.
EmittedOnce(l, event, to) ==
    /\ Len(l.emits) = 1
    /\ l.emits[1].event = event
    /\ l.emits[1].to = to

\* C1: in every reachable state the history log holds at most MAX_HISTORY events.
HistoryBounded == Len(messageHistory) <= MAX_HISTORY

\* C1 witness: an event has been evicted and the log is full.
HistoryOverflowed ==
    Len(appended) > MAX_HISTORY /\ Len(messageHistory) = MAX_HISTORY

\* C2: eviction is FIFO: the log is exactly the last Min(k, MAX_HISTORY) of the k
\* events appended so far, in the order they were appended.
HistoryIsLastAppended == messageHistory = LastN(appended, MAX_HISTORY)

\* C2 witness: one more event than the log can hold was appended; the oldest one
\* (different from its successor) is gone and the newest one is at the tail.
OldestEvicted ==
    /\ Len(appended) = MAX_HISTORY + 1
    /\ appended[1] /= appended[2]
    /\ messageHistory[1] = appended[2]
    /\ messageHistory[MAX_HISTORY] = appended[MAX_HISTORY + 1]

\* C3: a user_join with a name no registry entry holds registers id -> name,
\* appends exactly one Joined event for that id and name to the log, and emits
\* exactly that event, as user_joined, to every connected socket, the announcing
\* one included; nothing else (no user_reconnected) is emitted.
FreshNameJoins ==
    [][ \A id \in ConnIds, userName \in Names :
          ( /\ last'.op = "user_join" /\ last'.id = id /\ last'.arg = userName
            /\ ~ \E k \in DOMAIN users : users[k] = userName )
          => /\ users' = Registered(users, id, userName)
             /\ OneAppended(appended', appended)
             /\ IsJoined(appended'[Len(appended')], id, userName)
             /\ messageHistory' = LastN(appended', MAX_HISTORY)
             /\ EmittedOnce(last', "user_joined", live)
             /\ last'.emits[1].data = appended'[Len(appended')]
             /\ id \in live
      ]_vars

\* C3 witness: a Joined event was just broadcast to the joiner and another socket.
FreshNameJoined ==
    /\ last.op = "user_join"
    /\ EmittedOnce(last, "user_joined", live)
    /\ last.id \in live
    /\ Cardinality(live) >= 2
    /\ IsJoined(messageHistory[Len(messageHistory)], last.id, last.arg)

\* C4: a user_join with a name another socket's registry entry holds emits
\* user_reconnected (id, name) to every connected socket, registers id -> name
\* and leaves the history log as it was.
HeldNameReconnects ==
    [][ \A id \in ConnIds, userName \in Names :
          ( /\ last'.op = "user_join" /\ last'.id = id /\ last'.arg = userName
            /\ \E k \in DOMAIN users \ {id} : users[k] = userName )
          => /\ EmittedOnce(last', "user_reconnected", live)
             /\ last'.emits[1].data = [userId |-> id, userName |-> userName]
             /\ users' = Registered(users, id, userName)
             /\ messageHistory' = messageHistory
             /\ appended' = appended
      ]_vars

\* C4 witness: user_reconnected was just emitted while another socket holds the
\* name, and the log is not empty.
HeldNameReconnected ==
    /\ last.op = "user_join"
    /\ EmittedOnce(last, "user_reconnected", live)
    /\ \E k \in DOMAIN users \ {last.id} : users[k] = last.arg
    /\ messageHistory /= << >>

\* C5 (as claimed): a user_join whose name is empty after trimming changes neither
\* the registry nor the history log and emits nothing.
BlankNameRejected ==
    [][ (last'.op = "user_join" /\ Trim(last'.arg) = << >>)
          => /\ users' = users
             /\ messageHistory' = messageHistory
             /\ appended' = appended
             /\ last'.emits = << >>
      ]_vars

\* C6 (as claimed): the disconnect of a socket that has a registry entry removes
\* that entry and no other, appends exactly one Left event with that id and name
\* to the log, and emits it, as user_left, to every socket still connected.
NamedDisconnectLeaves ==
    [][ \A id \in ConnIds :
          (last'.op = "disconnect" /\ last'.id = id /\ id \in DOMAIN users)
          => /\ users' = [k \in DOMAIN users \ {id} |-> users[k]]
             /\ OneAppended(appended', appended)
             /\ IsLeft(appended'[Len(appended')], id, users[id])
             /\ messageHistory' = LastN(appended', MAX_HISTORY)
             /\ EmittedOnce(last', "user_left", live \ {id})
             /\ last'.emits[1].data = appended'[Len(appended')]
      ]_vars

\* C7: the disconnect of a socket that never sent user_join emits nothing and
\* leaves the registry and the history log as they were.
UnnamedDisconnectSilent ==
    [][ (last'.op = "disconnect" /\ last'.id \notin announced)
          => /\ last'.emits = << >>
             /\ users' = users
             /\ messageHistory' = messageHistory
             /\ appended' = appended
      ]_vars

\* C7 witness: a socket that never announced a name just disconnected, while the
\* registry and the log are not empty.
UnnamedDisconnected ==
    /\ last.op = "disconnect"
    /\ last.id \notin announced
    /\ DOMAIN users /= {}
    /\ messageHistory /= << >>

\* C8: a send_message from a socket that has no registry entry emits nothing (to
\* the sender or anyone else) and leaves the history log and the registry as they
\* were.
UnregisteredMessageDropped ==
    [][ (last'.op = "send_message" /\ last'.id \notin DOMAIN users)
          => /\ last'.emits = << >>
             /\ messageHistory' = messageHistory
             /\ appended' = appended
             /\ users' = users
      ]_vars

\* C8 witness: a socket that never announced a name just sent a message, while
\* the registry and the log are not empty.
UnregisteredMessageSent ==
    /\ last.op = "send_message"
    /\ last.id \notin announced
    /\ last.id \notin DOMAIN users
    /\ DOMAIN users /= {}
    /\ messageHistory /= << >>

\* C9 (as claimed): a send_message from a socket that has a registry entry appends
\* exactly one Message event (sender id, registered name, unmodified body) to the
\* log and emits it, as receive_message, to every connected socket; the registry
\* is unchanged.
RegisteredMessageBroadcast ==
    [][ \A id \in ConnIds, body \in Bodies :
          ( /\ last'.op = "send_message" /\ last'.id = id /\ last'.arg = body
            /\ id \in DOMAIN users )
          => /\ OneAppended(appended', appended)
             /\ IsMessage(appended'[Len(appended')], id, users[id], body)
             /\ messageHistory' = LastN(appended', MAX_HISTORY)
             /\ EmittedOnce(last', "receive_message", live)
             /\ last'.emits[1].data = appended'[Len(appended')]
             /\ users' = users
      ]_vars

\* C10: on connect the server emits load_history with the current log, oldest
\* event first, to the connecting socket alone, and changes neither the registry
\* nor the log.
ConnectSendsSnapshot ==
    [][ last'.op = "connection"
          => /\ EmittedOnce(last', "load_history", {last'.id})
             /\ last'.emits[1].data = messageHistory
             /\ last'.emits[1].data = LastN(appended, MAX_HISTORY)
             /\ users' = users
             /\ messageHistory' = messageHistory
             /\ appended' = appended
      ]_vars

\* C10 witness: a socket just connected beside another one and was sent a log
\* that is not empty.
SnapshotSent ==
    /\ last.op = "connection"
    /\ Cardinality(live) >= 2
    /\ EmittedOnce(last, "load_history", {last.id})
    /\ last.emits[1].data /= << >>
    /\ last.emits[1].data = messageHistory

\* C11 (as claimed): a socket registered under a display name keeps that name while
\* it stays connected, a further user_join on it appends no Joined event, and a
\* socket that has disconnected never becomes connected again. (Display names:
\* not empty after trimming.)
ConnectionNamedOnce ==
    [][ \A id \in ConnIds :
          /\ ( /\ id \in DOMAIN users /\ Trim(users[id]) /= << >> /\ id \in live'
               /\ last'.op /= "user_join" )
                => (id \in DOMAIN users' /\ users'[id] = users[id])
          /\ ( /\ last'.op = "user_join" /\ last'.id = id /\ Trim(last'.arg) /= << >>
               /\ id \in DOMAIN users /\ Trim(users[id]) /= << >> )
                => (users'[id] = users[id] /\ appended' = appended)
          /\ (id < nextId /\ id \notin live) => id \notin live'
      ]_vars

\* C12 (as claimed): after a user_join with a display name another socket's entry
\* holds, the entry under the announcing socket is the only one with that name.
RejoinReplacesEntry ==
    [][ \A id \in ConnIds, userName \in Names :
          ( /\ last'.op = "user_join" /\ last'.id = id /\ last'.arg = userName
            /\ Trim(userName) /= << >>
            /\ \E k \in DOMAIN users \ {id} : users[k] = userName )
          => /\ id \in DOMAIN users' /\ users'[id] = userName
             /\ \A k \in DOMAIN users' \ {id} : users'[k] /= userName
      ]_vars

\* C13: the registry holds an entry only for sockets that are connected and have
\* sent user_join: a socket that never announced, or that has disconnected, has
\* none.
RegistryOnlyLiveAnnounced ==
    /\ DOMAIN users \subseteq 1..(nextId - 1)
    /\ \A id \in 1..(nextId - 1) :
          (id \notin announced \/ id \notin live) => id \notin DOMAIN users

\* C13 witness: a socket announced a name and disconnected, and has no entry,
\* while another socket has one.
StaleEntryGone ==
    /\ \E id \in announced : id \notin live /\ id \notin DOMAIN users
    /\ DOMAIN users /= {}

\* The kind of a history event, by the handler that built it.
JoinedKind(e) ==
    /\ "totalUsers" \notin DOMAIN e
    /\ e.message = e.userName \o <<" ", "joined", " ", "the", " ", "chat">>

LeftKind(e) ==
    /\ "totalUsers" \in DOMAIN e
    /\ e.message = e.userName \o <<" ", "left", " ", "the", " ", "chat">>

MessageKind(e) == ~JoinedKind(e) /\ ~LeftKind(e)

\* The (name, id) pairs of the names whose last Joined-or-Left event in h is a
\* Joined, each with the id of that Joined.
OnlineAfter(h) ==
    { [id |-> h[j].userId, name |-> h[j].userName] :
        j \in { j \in 1..Len(h) :
                  /\ JoinedKind(h[j])
                  /\ \A k \in (j + 1)..Len(h) :
                        (JoinedKind(h[k]) \/ LeftKind(h[k])) => h[k].userName /= h[j].userName } }

SeqRange(s) == { s[i] : i \in 1..Len(s) }

\* C15 (as claimed): after replaying a received snapshot the client's online-user
\* list holds exactly the names whose last Joined-or-Left event in the snapshot
\* is a Joined, each once and with the socket id of its latest Joined event.
ReplayTracksLastJoin ==
    clast.op = "load_history"
    => /\ SeqRange(clientUsers) = OnlineAfter(clast.data)
       /\ Cardinality(SeqRange(clientUsers)) = Len(clientUsers)

\* C16 (as claimed): during replay events are classified by their kind and not by
\* their text: every Message event becomes a chat entry and every Joined or Left
\* event a system entry, and the online-user list is the one the snapshot without
\* its Message events gives.
ReplayByEventKind ==
    clast.op = "load_history"
    => LET history == clast.data
       IN  /\ Len(messages) = Len(history)
           /\ \A i \in 1..Len(history) :
                 messages[i].type = IF MessageKind(history[i]) THEN "message" ELSE "system"
           /\ clientUsers =
                 RebuildUsers(ReplayJoins(SelectSeq(history, LAMBDA e : ~MessageKind(e))))

\* The snapshot [Joined(alice), Message(alice, "hi"), Left(alice), Joined(bob)].
Tour ==
    << JoinEvent(1, <<"alice">>, 60), MessageEvent(1, <<"alice">>, <<"hi">>, 60),
       LeftEvent(1, <<"alice">>, 60, 0), JoinEvent(2, <<"bob">>, 60) >>

EntryTypes(m) == [i \in 1..Len(m) |-> m[i].type]

\* C17 (as claimed): replaying Tour yields the online-user set {bob} and a timeline
\* of three entries: join, message, join.
TourThreeEntries ==
    (clast.op = "load_history" /\ clast.data = Tour)
    => /\ { u.name : u \in SeqRange(clientUsers) } = { <<"bob">> }
       /\ EntryTypes(messages) = << "system", "message", "system" >>
       /\ messages[3].message = Tour[4].message

\* C17 (amended): replaying Tour yields the online-user set {bob} and a timeline of
\* four entries, one per event: join, message, left, join. The Left event removes
\* alice from the online set and stays in the timeline as a system entry.
TourFourEntries ==
    (clast.op = "load_history" /\ clast.data = Tour)
    => /\ { u.name : u \in SeqRange(clientUsers) } = { <<"bob">> }
       /\ EntryTypes(messages) = << "system", "message", "system", "system" >>
       /\ \A i \in 1..4 : messages[i].message = Tour[i].message

\* C17 witness: the client has replayed Tour.
TourReplayed ==
    clast.op = "load_history" /\ clast.data = Tour /\ Len(messages) = Len(Tour)

\* C18: on user_joined the client adds {id, name} to its online list if and only
\* if no entry has that id or that name, and in either case appends exactly one
\* system entry to the timeline.
LiveJoinAddsOnce ==
    [][ clast'.op = "user_joined"
        => LET data == clast'.data
               fresh == \A u \in SeqRange(clientUsers) :
                            u.id /= data.userId /\ u.name /= data.userName
           IN  /\ fresh => clientUsers' = Append(clientUsers, [id |-> data.userId,
                                                                name |-> data.userName])
               /\ ~fresh => clientUsers' = clientUsers
               /\ OneAppended(messages', messages)
               /\ messages'[Len(messages')].type = "system"
               /\ messages'[Len(messages')].message = data.message
      ]_vars

\* C18 witness: a user_joined arrived for a name that was listed under another id,
\* and the list stayed as it was.
LiveJoinOfListedName ==
    /\ clast.op = "user_joined"
    /\ \E u \in SeqRange(clast.was) : u.name = clast.data.userName /\ u.id /= clast.data.userId
    /\ clientUsers = clast.was

\* C19: on user_reconnected the client drops every entry with the packet's name,
\* whatever its id, adds {id, name} of the packet, and leaves the timeline alone.
LiveReconnectReplaces ==
    [][ clast'.op = "user_reconnected"
        => LET data == clast'.data
           IN  /\ clientUsers' =
                     Append(SelectSeq(clientUsers, LAMBDA u : u.name /= data.userName),
                            [id |-> data.userId, name |-> data.userName])
               /\ messages' = messages
      ]_vars

\* C19 witness: a user_reconnected arrived for a name that was listed under another
\* id.
LiveReconnectOfListedName ==
    /\ clast.op = "user_reconnected"
    /\ \E u \in SeqRange(clast.was) : u.name = clast.data.userName /\ u.id /= clast.data.userId

\* C20: on user_left the client drops exactly the entries whose id is the packet's
\* id (an entry with the packet's name under another id stays) and appends exactly
\* one system entry to the timeline.
LiveLeftDropsById ==
    [][ clast'.op = "user_left"
        => LET data == clast'.data
           IN  /\ clientUsers' = SelectSeq(clientUsers, LAMBDA u : u.id /= data.userId)
               /\ OneAppended(messages', messages)
               /\ messages'[Len(messages')].type = "system"
               /\ messages'[Len(messages')].message = data.message
      ]_vars

\* C20 witness: a user_left arrived for a name that was listed under another id, and
\* that entry is still listed.
LiveLeftOfRenewedName ==
    /\ clast.op = "user_left"
    /\ \E u \in SeqRange(clast.was) :
          /\ u.name = clast.data.userName /\ u.id /= clast.data.userId
          /\ u \in SeqRange(clientUsers)

\* C21: in a rendered timeline a time separator is shown before entry i (counted
\* from 0) if and only if i > 0 and the timestamp label of entry i differs from
\* the label of entry i - 1; none is shown before the first entry.
SeparatorIffLabelChanges ==
    Len(separators) = Len(messages)
    => \A i \in 0..(Len(messages) - 1) :
          separators[i + 1] <=> (i > 0 /\ messages[i + 1].timestamp /= messages[i].timestamp)

\* C21 witness: a rendered timeline with a separator before its second entry and
\* none before its third.
SeparatorShownAndHidden ==
    /\ Len(messages) = 3
    /\ Len(separators) = 3
    /\ separators[2]
    /\ ~separators[3]

\* C22 (as claimed): while no event has been evicted from the history log, the
\* names online after replaying the log (Joined adds, Left removes) are exactly the
\* names held in the registry. (Stated for logs of non-blank names in which no
\* socket has two Joined events.)
ReplayMatchesRegistry ==
    ( /\ Len(appended) < MAX_HISTORY
      /\ \A k \in DOMAIN users : Trim(users[k]) /= << >>
      /\ \A i \in 1..Len(messageHistory) : Trim(messageHistory[i].userName) /= << >>
      /\ \A i, j \in 1..Len(messageHistory) :
            ( /\ JoinedKind(messageHistory[i]) /\ JoinedKind(messageHistory[j])
              /\ messageHistory[i].userId = messageHistory[j].userId ) => i = j )
    => { u.name : u \in OnlineAfter(messageHistory) } = { users[k] : k \in DOMAIN users }

\* C23 (as claimed): a client that was the first socket to connect (so its online
\* list and the registry were both empty), has stayed connected and has handled
\* every broadcast lists exactly the names the registry holds.
LiveTracksRegistry ==
    (clientSocket = 1 /\ wire = << >>)
    => { u.name : u \in SeqRange(clientUsers) } = { users[k] : k \in DOMAIN users }

\* The timeline entry shows the event: same text and label, and for a chat entry
\* the same sender.
EntryShows(entry, event) ==
    /\ entry.message = event.message
    /\ entry.timestamp = event.timestamp
    /\ entry.type = "message" => (entry.userId = event.userId /\ entry.userName = event.userName)

\* C24: once a connected client has handled its snapshot and every broadcast sent
\* to it, its timeline shows the most recent events ever appended to the history
\* log, each once and in the order they were appended, and is at least as long
\* as the server's current log, which is therefore the tail of the timeline.
TimelineTracksLog ==
    (clientSocket /= 0 /\ wire = << >>)
    => /\ Len(messages) >= Len(messageHistory)
       /\ Len(messages) <= Len(appended)
       /\ \A i \in 1..Len(messages) :
             EntryShows(messages[i], appended[Len(appended) - Len(messages) + i])
       /\ \A i \in 1..Len(messageHistory) :
             EntryShows(messages[Len(messages) - Len(messageHistory) + i], messageHistory[i])

\* C24 witness: the client took a full snapshot and then handled a broadcast whose
\* event evicted the oldest one from the log.
TimelineOutgrewLog ==
    /\ clientSocket /= 0
    /\ wire = << >>
    /\ Len(messageHistory) = MAX_HISTORY
    /\ Len(messages) = MAX_HISTORY + 1
    /\ clast.op \in {"user_joined", "receive_message", "user_left"}

\* The step puts a user_join packet into the client's outgoing packets.
EmitsUserJoin ==
    /\ Len(outbox') = Len(outbox) + 1
    /\ outbox'[Len(outbox')].event = "user_join"

\* C25: whenever the client emits user_join, the name it sends is not empty and
\* not made of whitespace only, whatever the order of joinChat, connectFromPrompt,
\* toggleConnection, leaveChat and the firing of the announce timers.
AnnouncesOnlyRealNames ==
    [][EmitsUserJoin => Trim(outbox'[Len(outbox')].data) /= << >>]_vars

\* The user is in the chat, past the connect prompt, on a connected socket.
Chatting == ~loginPhase /\ ~showInitialConnectPrompt /\ isConnected

\* Nothing the client has scheduled or emitted is still on its way.
Settled == timers = {} /\ outbox = << >>

\* C26: whenever the client is in the chat phase with its connect prompt
\* completed and its socket connected, its current connection eventually has an
\* entry in the server's registry (or the client has stopped being connected in
\* the chat), also after the transport dropped and the socket reconnected under
\* a new connection identity.
ConnectedGetsRegistered ==
    (Chatting /\ Settled) ~> (clientSocket \in DOMAIN users \/ ~Chatting)

====
